---------------------------- MODULE Spec2Model ----------------------------
(***************************************************************************)
(* Model of personal_assistant_web_v01.py: the Field / Validator layer and *)
(* the Record sub-aggregates (phone list, birthday, notes).                *)
(*                                                                         *)
(* Python values are records [t, v, id]:                                   *)
(*   t = "none"  : None                                                    *)
(*   t = "str"   : a str, v its characters (one token per character)       *)
(*   t = "int"   : an int, v its decimal digits                            *)
(*   t = "field" : a reference to a Field object, id its identity          *)
(* An exception is modelled by the outcome of the call (out.r).            *)
(***************************************************************************)
EXTENDS Integers, Sequences, FiniteSets, TLC

VARIABLES
    raw,        \* the argument handed to PhoneValidator.validate
    field,      \* a Field: [value, validator]
    phones,     \* RecordPhone.phones: a list of Fields
    birthday,   \* RecordBirthday.birthday: a Field with a DateValidator
    today,      \* the clock read by datetime.today(): [y, m, d, s]
    notes,      \* RecordInfo.notes: insertion-ordered dict, Field keys
    nextId,     \* identity of the next Field object used as a dict key
    call,       \* the most recent call: [op, a, b]
    out,        \* its outcome: [r, n] (r = "ok", an exception, a message)
    pre         \* the state of the operated object before that call

vars == <<raw, field, phones, birthday, today, notes, nextId, call, out, pre>>

----------------------------------------------------------------------------
(* Bounds of the model *)

MaxRawLen == 10
MaxPhones == 4
MaxNotes == 3
MaxIds == 4

----------------------------------------------------------------------------
(* Python values *)

None == [t |-> "none", v |-> <<>>, id |-> 0]
PyStr(s) == [t |-> "str", v |-> s, id |-> 0]
PyInt(digits) == [t |-> "int", v |-> digits, id |-> 0]
FieldRef(i) == [t |-> "field", v |-> <<>>, id |-> i]

\* str(x) for the values the phone list handles: the characters of a str,
\* the decimal digits of an int, "None" for None
StrOf(x) ==
    CASE x.t = "str" -> x.v
      [] x.t = "int" -> x.v
      [] OTHER -> <<"N", "o", "n", "e">>

\* bool(x) as used by `if x:`
Truthy(x) ==
    CASE x.t = "none" -> FALSE
      [] x.t = "str" -> Len(x.v) > 0
      [] x.t = "int" -> \E i \in DOMAIN x.v : x.v[i] # "0"
      [] OTHER -> TRUE

Ok == [r |-> "ok", n |-> 0]
Raise(e) == [r |-> e, n |-> 0]
Call(op, a, b) == [op |-> op, a |-> a, b |-> b]

----------------------------------------------------------------------------
(* Characters *)

AsciiDigits == {"0", "1", "2", "3", "4", "5", "6", "7", "8", "9"}
\* characters with Numeric_Type=Digit that are not decimal: SUPERSCRIPT TWO
OtherDigits == {"sup2"}

\* str.isdigit(): every character is a digit and there is at least one
IsDigit(s) ==
    /\ Len(s) > 0
    /\ \A i \in DOMAIN s : s[i] \in AsciiDigits \cup OtherDigits

----------------------------------------------------------------------------
(* PhoneValidator *)

PhoneLen == 9
ErrDigits == "ValueError: The phone number must contain only digits."
ErrLength == "ValueError: Phone number must contain exactly 9 digits."
ErrAttribute == "AttributeError: object has no attribute 'isdigit'"

PhoneValidate(value) ==
    IF value.t # "str" THEN ErrAttribute
    ELSE IF ~IsDigit(value.v) THEN ErrDigits
    ELSE IF Len(value.v) # PhoneLen THEN ErrLength
    ELSE "ok"


----------------------------------------------------------------------------
(* Calendar arithmetic of datetime *)

IsLeap(y) == (y % 4 = 0) /\ ((y % 100 # 0) \/ (y % 400 = 0))

DaysInMonth(y, m) ==
    IF m = 2 THEN (IF IsLeap(y) THEN 29 ELSE 28)
    ELSE IF m \in {4, 6, 9, 11} THEN 30 ELSE 31

\* datetime(y, m, d) raises ValueError unless this holds
ValidDate(y, m, d) ==
    /\ y \in 1..9999
    /\ m \in 1..12
    /\ d \in 1..DaysInMonth(y, m)

RECURSIVE DaysBeforeMonth(_, _)
DaysBeforeMonth(y, m) ==
    IF m <= 1 THEN 0 ELSE DaysBeforeMonth(y, m - 1) + DaysInMonth(y, m - 1)

DaysBeforeYear(y) ==
    (y - 1) * 365 + ((y - 1) \div 4) - ((y - 1) \div 100) + ((y - 1) \div 400)

\* date.toordinal()
ToOrdinal(y, m, d) == DaysBeforeYear(y) + DaysBeforeMonth(y, m) + d

----------------------------------------------------------------------------
(* DateValidator: datetime.strptime(value, "%d-%m-%Y") *)

ErrFormat == "ValueError: Birthday must be in 'dd-mm-yyyy' format."
ErrType == "TypeError: strptime() argument 1 must be str"
ErrDayRange == "ValueError: day is out of range for month"

DigitVal(c) == CHOOSE n \in 0..9 : <<"0", "1", "2", "3", "4", "5", "6", "7", "8", "9">>[n + 1] = c

RECURSIVE NumOf(_)
NumOf(s) ==
    IF s = <<>> THEN 0
    ELSE 10 * NumOf(SubSeq(s, 1, Len(s) - 1)) + DigitVal(s[Len(s)])

AllAscii(s) == \A i \in DOMAIN s : s[i] \in AsciiDigits

\* %d: 3[0-1] | [1-2]\d | 0[1-9] | [1-9]
MatchesDay(s) ==
    /\ Len(s) \in {1, 2}
    /\ AllAscii(s)
    /\ NumOf(s) \in 1..31

\* %m: 1[0-2] | 0[1-9] | [1-9]
MatchesMonth(s) ==
    /\ Len(s) \in {1, 2}
    /\ AllAscii(s)
    /\ NumOf(s) \in 1..12

\* %Y: \d\d\d\d
MatchesYear(s) == Len(s) = 4 /\ AllAscii(s)

\* The parsed date, or ok = FALSE where strptime raises ValueError: the three
\* directives are separated by "-", none of them matches a "-", and nothing
\* may remain unconverted
ParseDate(s) ==
    LET dashes == {i \in DOMAIN s : s[i] = "-"}
        bad == [ok |-> FALSE, y |-> 0, m |-> 0, d |-> 0]
    IN  IF Cardinality(dashes) # 2 THEN bad
        ELSE LET i1 == CHOOSE i \in dashes : \A j \in dashes : i <= j
                 i2 == CHOOSE i \in dashes : \A j \in dashes : i >= j
                 ds == SubSeq(s, 1, i1 - 1)
                 ms == SubSeq(s, i1 + 1, i2 - 1)
                 ys == SubSeq(s, i2 + 1, Len(s))
             IN  IF MatchesDay(ds) /\ MatchesMonth(ms) /\ MatchesYear(ys)
                    /\ ValidDate(NumOf(ys), NumOf(ms), NumOf(ds))
                 THEN [ok |-> TRUE, y |-> NumOf(ys), m |-> NumOf(ms), d |-> NumOf(ds)]
                 ELSE bad

DateValidate(value) ==
    IF value.t # "str" THEN ErrType
    ELSE IF ~ParseDate(value.v).ok THEN ErrFormat
    ELSE "ok"

----------------------------------------------------------------------------
(* Field *)

Field(value, validator) == [value |-> value, validator |-> validator]

Validate(validator, value) ==
    CASE validator = "phone" -> PhoneValidate(value)
      [] validator = "date" -> DateValidate(value)
      [] OTHER -> "ok"

\* A set_value that assigns before it validates
SetValueCommitFirst(f, value) ==
    LET r == IF f.validator # "none" THEN Validate(f.validator, value) ELSE "ok"
    IN  [f |-> [f EXCEPT !.value = value], out |-> IF r # "ok" THEN Raise(r) ELSE Ok]

\* Field.set_value: the Field after the call and the outcome of the call
SetValue(f, value) ==
    LET r == IF f.validator # "none" THEN Validate(f.validator, value) ELSE "ok"
    IN  IF r # "ok" THEN [f |-> f, out |-> Raise(r)]
        ELSE [f |-> [f EXCEPT !.value = value], out |-> Ok]

GetValue(f) == f.value

----------------------------------------------------------------------------
(* RecordPhone *)

MsgNotFound == "Old phone number not found."

\* add_phone: a new Field with a PhoneValidator, set_value, append
AddPhoneOp(list, phone) ==
    LET new_phone == Field(None, "phone")
        res == SetValue(new_phone, phone)
    IN  IF res.out.r # "ok" THEN [phones |-> list, out |-> res.out]
        ELSE [phones |-> Append(list, res.f), out |-> Ok]

\* A remove_phone that drops the first matching entry only (list.remove)
RemovePhoneFirstOp(list, phone) ==
    LET hits == {i \in DOMAIN list : StrOf(GetValue(list[i])) = StrOf(phone)}
    IN  IF hits = {} THEN [phones |-> list, out |-> Ok]
        ELSE LET i == CHOOSE k \in hits : \A j \in hits : k <= j
             IN  [phones |-> SubSeq(list, 1, i - 1) \o SubSeq(list, i + 1, Len(list)),
                  out |-> Ok]

\* remove_phone: the comprehension keeps the entries that do not stringify
\* equal to str(phone)
RemovePhoneOp(list, phone) ==
    LET phone_to_remove == StrOf(phone)
    IN  IF \E i \in DOMAIN list : StrOf(GetValue(list[i])) = phone_to_remove
        THEN [phones |-> SelectSeq(list, LAMBDA p : StrOf(GetValue(p)) # phone_to_remove),
              out |-> Ok]
        ELSE [phones |-> list, out |-> Ok]

\* the index at which the loop of edit_phone stops, 0 when it runs to the end
RECURSIVE FirstMatch(_, _, _)
FirstMatch(list, s, i) ==
    IF i > Len(list) THEN 0
    ELSE IF StrOf(GetValue(list[i])) = s THEN i
    ELSE FirstMatch(list, s, i + 1)

\* An edit_phone whose loop does not return at the first match
EditPhoneAllOp(list, old_phone, new_phone) ==
    IF \E i \in DOMAIN list : StrOf(GetValue(list[i])) = StrOf(old_phone)
    THEN [phones |-> [i \in DOMAIN list |->
                        IF StrOf(GetValue(list[i])) = StrOf(old_phone)
                        THEN Field(new_phone, "phone") ELSE list[i]],
          out |-> Ok]
    ELSE [phones |-> list, out |-> [r |-> MsgNotFound, n |-> 0]]

\* edit_phone: the matched entry becomes Field(new_phone, PhoneValidator()),
\* whose constructor stores the value as given
EditPhoneOp(list, old_phone, new_phone) ==
    LET old_phone_obj == Field(old_phone, "none")
        i == FirstMatch(list, StrOf(GetValue(old_phone_obj)), 1)
    IN  IF i # 0
        THEN [phones |-> [list EXCEPT ![i] = Field(new_phone, "phone")], out |-> Ok]
        ELSE [phones |-> list, out |-> [r |-> MsgNotFound, n |-> 0]]

----------------------------------------------------------------------------
(* RecordBirthday *)

\* today > datetime(y, m, d), the latter at midnight
After(now, y, m, d) ==
    \/ ToOrdinal(now.y, now.m, now.d) > ToOrdinal(y, m, d)
    \/ ToOrdinal(now.y, now.m, now.d) = ToOrdinal(y, m, d) /\ now.s > 0

\* (datetime(y, m, d) - today).days: timedelta normalises to whole days,
\* rounding towards minus infinity
DeltaDays(now, y, m, d) ==
    ((ToOrdinal(y, m, d) - ToOrdinal(now.y, now.m, now.d)) * 86400 - now.s) \div 86400

DaysToBirthdayOp(f, now) ==
    IF ~Truthy(GetValue(f)) THEN [r |-> "None", n |-> 0]
    ELSE LET birthday_date == ParseDate(GetValue(f).v)
         IN  IF GetValue(f).t # "str" THEN Raise(ErrType)
             ELSE IF ~birthday_date.ok THEN Raise(ErrFormat)
             ELSE IF ~ValidDate(now.y, birthday_date.m, birthday_date.d)
                  THEN Raise(ErrDayRange)
             ELSE IF After(now, now.y, birthday_date.m, birthday_date.d)
                  THEN IF ~ValidDate(now.y + 1, birthday_date.m, birthday_date.d)
                       THEN Raise(ErrDayRange)
                       ELSE [r |-> "days",
                             n |-> DeltaDays(now, now.y + 1, birthday_date.m, birthday_date.d)]
             ELSE [r |-> "days",
                   n |-> DeltaDays(now, now.y, birthday_date.m, birthday_date.d)]

----------------------------------------------------------------------------
(* RecordInfo: notes is a dict whose keys are Field objects. Field defines *)
(* neither __eq__ nor __hash__, so a key equals only itself.               *)

MsgNoNote == "Note with this tag does not exist."
MsgRemoved == "Success: note has been removed successfully."

\* `tag in self.notes`: the position of the key equal to tag, 0 if none
KeyIndex(ns, tag) ==
    IF \E i \in DOMAIN ns : tag.t = "field" /\ tag.id = ns[i].key
    THEN CHOOSE i \in DOMAIN ns : tag.id = ns[i].key
    ELSE 0

\* add_note: self.notes[Field(tag)] = Field(note); the key is a new object,
\* of identity id
AddNoteOp(ns, id, tag, note) ==
    Append(ns, [key |-> id, tag |-> tag, note |-> Field(note, "none")])

EditNoteOp(ns, tag, new_note) ==
    LET i == KeyIndex(ns, tag)
    IN  IF i # 0
        THEN [notes |-> [ns EXCEPT ![i].note = SetValue(@, new_note).f], out |-> Ok]
        ELSE [notes |-> ns, out |-> [r |-> MsgNoNote, n |-> 0]]

RemoveNoteOp(ns, tag) ==
    LET i == KeyIndex(ns, tag)
    IN  IF i # 0
        THEN [notes |-> SubSeq(ns, 1, i - 1) \o SubSeq(ns, i + 1, Len(ns)),
              out |-> [r |-> MsgRemoved, n |-> 0]]
        ELSE [notes |-> ns, out |-> [r |-> MsgNoNote, n |-> 0]]

----------------------------------------------------------------------------
(* Inputs *)

PhoneChars == {"7", "x", "sup2"}

\* every str over PhoneChars of at most MaxRawLen characters
RawStrings == UNION {[1..n -> PhoneChars] : n \in 0..MaxRawLen}

P1 == <<"1", "2", "3", "4", "5", "6", "7", "8", "9">>
P2 == <<"9", "8", "7", "6", "5", "4", "3", "2", "1">>

\* two valid numbers, the int that stringifies like the first, a bad string
PhoneInputs == { PyStr(P1), PyStr(P2), PyInt(P1), PyStr(<<"1", "2", "a">>) }

DateInputs ==
    { PyStr(<<"1", "5", "-", "0", "5", "-", "1", "9", "9", "0">>),
      PyStr(<<"2", "9", "-", "0", "2", "-", "2", "0", "0", "0">>),
      PyStr(<<"3", "1", "-", "1", "2", "-", "1", "9", "9", "9">>),
      PyStr(<<"1", "-", "3", "-", "2", "0", "0", "1">>),
      PyStr(<<"3", "1", "-", "0", "2", "-", "2", "0", "2", "0">>),
      PyStr(<<"0", "0", "-", "0", "1", "-", "2", "0", "2", "0">>),
      PyStr(<<"1", "5", "/", "0", "5", "/", "1", "9", "9", "0">>),
      None }

TodayYears == {2023, 2024}
\* seconds since midnight (a time of day within the first second stands for
\* midnight itself only when it is 0)
TimesOfDay == {0, 1, 43200}

\* <<month, day>> of the days the clock is read on
TodayDates == {<<1, 1>>, <<2, 28>>, <<2, 29>>, <<3, 1>>, <<5, 14>>, <<5, 15>>, <<5, 16>>, <<12, 31>>}

Todays ==
    { now \in [y : TodayYears, m : 1..12, d : 1..31, s : TimesOfDay] :
        <<now.m, now.d>> \in TodayDates /\ ValidDate(now.y, now.m, now.d) }

Family == PyStr(<<"F", "a", "m", "i", "l", "y">>)
Pets == PyStr(<<"P", "e", "t", "s">>)
TagInputs == {Family, Pets}
NoteInputs == { PyStr(<<"w", "i", "f", "e">>), PyStr(<<"U", "p", "d", "a", "t", "e", "d">>) }

----------------------------------------------------------------------------
(* State after construction *)

Start == [y |-> 2023, m |-> 1, d |-> 1, s |-> 0]

InitRecord ==
    /\ field = Field(None, "none")
    /\ phones = <<>>
    /\ birthday = Field(None, "date")
    /\ today = Start
    /\ notes = <<>>
    /\ nextId = 1
    /\ call = Call("init", None, None)
    /\ out = Ok

----------------------------------------------------------------------------
(* PhoneValidator.validate on its own *)

InitValidator ==
    /\ InitRecord
    /\ raw \in {PyStr(s) : s \in RawStrings} \cup {None, PyInt(P1)}
    /\ pre = None

ValidatePhone ==
    /\ call.op = "init"
    /\ call' = Call("validate", raw, None)
    /\ out' = (IF PhoneValidate(raw) = "ok" THEN Ok ELSE Raise(PhoneValidate(raw)))
    /\ UNCHANGED <<raw, field, phones, birthday, today, notes, nextId, pre>>

NextValidator == ValidatePhone

SpecValidator == InitValidator /\ [][NextValidator]_vars

----------------------------------------------------------------------------
(* A Field and its set_value *)

InitField ==
    /\ phones = <<>>
    /\ birthday = Field(None, "date")
    /\ today = Start
    /\ notes = <<>>
    /\ nextId = 1
    /\ call = Call("init", None, None)
    /\ out = Ok
    /\ raw = None
    /\ field \in {Field(None, v) : v \in {"phone", "date", "none"}}
    /\ pre = field

FieldSetValue(value) ==
    LET res == SetValue(field, value)
    IN  /\ field' = res.f
        /\ out' = res.out
        /\ call' = Call("set_value", value, None)
        /\ pre' = field
        /\ UNCHANGED <<raw, phones, birthday, today, notes, nextId>>

NextField == \E value \in PhoneInputs \cup DateInputs : FieldSetValue(value)

SpecField == InitField /\ [][NextField]_vars

----------------------------------------------------------------------------
(* RecordPhone *)

InitPhone ==
    /\ InitRecord
    /\ raw = None
    /\ pre = <<>>

AddPhone(phone) ==
    LET res == AddPhoneOp(phones, phone)
    IN  /\ Len(phones) < MaxPhones
        /\ phones' = res.phones
        /\ out' = res.out
        /\ call' = Call("add_phone", phone, None)
        /\ pre' = phones
        /\ UNCHANGED <<raw, field, birthday, today, notes, nextId>>

RemovePhone(phone) ==
    LET res == RemovePhoneOp(phones, phone)
    IN  /\ phones' = res.phones
        /\ out' = res.out
        /\ call' = Call("remove_phone", phone, None)
        /\ pre' = phones
        /\ UNCHANGED <<raw, field, birthday, today, notes, nextId>>

EditPhone(old_phone, new_phone) ==
    LET res == EditPhoneOp(phones, old_phone, new_phone)
    IN  /\ phones' = res.phones
        /\ out' = res.out
        /\ call' = Call("edit_phone", old_phone, new_phone)
        /\ pre' = phones
        /\ UNCHANGED <<raw, field, birthday, today, notes, nextId>>

NextPhone ==
    \/ \E phone \in PhoneInputs : AddPhone(phone)
    \/ \E phone \in PhoneInputs : RemovePhone(phone)
    \/ \E old_phone, new_phone \in PhoneInputs : EditPhone(old_phone, new_phone)

SpecPhone == InitPhone /\ [][NextPhone]_vars

----------------------------------------------------------------------------
(* RecordBirthday *)

InitBirthday ==
    /\ InitRecord
    /\ raw = None
    /\ pre = birthday

AddBirthday(value) ==
    LET res == SetValue(birthday, value)
    IN  /\ birthday' = res.f
        /\ out' = res.out
        /\ call' = Call("add_birthday", value, None)
        /\ pre' = birthday
        /\ UNCHANGED <<raw, field, phones, today, notes, nextId>>

EditBirthday(new_birthday) ==
    LET res == SetValue(birthday, new_birthday)
    IN  /\ birthday' = res.f
        /\ out' = res.out
        /\ call' = Call("edit_birthday", new_birthday, None)
        /\ pre' = birthday
        /\ UNCHANGED <<raw, field, phones, today, notes, nextId>>

RemoveBirthday ==
    LET res == SetValue(birthday, None)
    IN  /\ birthday' = res.f
        /\ out' = res.out
        /\ call' = Call("remove_birthday", None, None)
        /\ pre' = birthday
        /\ UNCHANGED <<raw, field, phones, today, notes, nextId>>

DaysToBirthday(now) ==
    /\ today' = now
    /\ out' = DaysToBirthdayOp(birthday, now)
    /\ call' = Call("days_to_birthday", None, None)
    /\ pre' = birthday
    /\ UNCHANGED <<raw, field, phones, birthday, notes, nextId>>

NextBirthday ==
    \/ \E value \in DateInputs : AddBirthday(value)
    \/ \E value \in DateInputs : EditBirthday(value)
    \/ RemoveBirthday
    \/ \E now \in Todays : DaysToBirthday(now)

SpecBirthday == InitBirthday /\ [][NextBirthday]_vars

----------------------------------------------------------------------------
(* RecordInfo *)

InitInfo ==
    /\ InitRecord
    /\ raw = None
    /\ pre = <<>>

\* what a caller can pass as a tag: a raw string, or a key object it took
\* from the dict
TagArgs == TagInputs \cup {FieldRef(i) : i \in 1..(nextId - 1)}

AddNote(tag, note) ==
    /\ Len(notes) < MaxNotes
    /\ nextId <= MaxIds
    /\ notes' = AddNoteOp(notes, nextId, tag, note)
    /\ nextId' = nextId + 1
    /\ out' = Ok
    /\ call' = Call("add_note", tag, note)
    /\ pre' = notes
    /\ UNCHANGED <<raw, field, phones, birthday, today>>

EditNote(tag, new_note) ==
    LET res == EditNoteOp(notes, tag, new_note)
    IN  /\ notes' = res.notes
        /\ out' = res.out
        /\ call' = Call("edit_note", tag, new_note)
        /\ pre' = notes
        /\ UNCHANGED <<raw, field, phones, birthday, today, nextId>>

RemoveNote(tag) ==
    LET res == RemoveNoteOp(notes, tag)
    IN  /\ notes' = res.notes
        /\ out' = res.out
        /\ call' = Call("remove_note", tag, None)
        /\ pre' = notes
        /\ UNCHANGED <<raw, field, phones, birthday, today, nextId>>

NextInfo ==
    \/ \E tag \in TagInputs, note \in NoteInputs : AddNote(tag, note)
    \/ \E tag \in TagArgs, note \in NoteInputs : EditNote(tag, note)
    \/ \E tag \in TagArgs : RemoveNote(tag)

SpecInfo == InitInfo /\ [][NextInfo]_vars

----------------------------------------------------------------------------
(* Properties *)

\* "consists only of decimal digits"
IsDecimal(s) == \A i \in DOMAIN s : s[i] \in AsciiDigits

Accepts(validator, value) == Validate(validator, value) = "ok"

\* C1: set_value on a Field with a validator is all-or-nothing. If
\* validate(raw) fails the call ends in an error and the stored value is the
\* one before the call; if it succeeds the stored value is raw. So the stored
\* value of a Field that started absent is absent or accepted by its validator.
C1_SetValueAllOrNothing ==
    field.validator # "none" =>
        /\ GetValue(field) = None \/ Accepts(field.validator, GetValue(field))
        /\ call.op = "set_value" =>
            /\ field.validator = pre.validator
            /\ Accepts(pre.validator, call.a) =>
                 out = Ok /\ GetValue(field) = call.a
            /\ ~Accepts(pre.validator, call.a) =>
                 out.r # "ok" /\ GetValue(field) = GetValue(pre)

\* a rejected set_value on a Field that already holds an accepted value
C1_Witness ==
    /\ call.op = "set_value"
    /\ field.validator # "none"
    /\ out.r # "ok"
    /\ GetValue(pre) # None
    /\ GetValue(field) = GetValue(pre)

\* C2: after any sequence of add_phone, remove_phone and edit_phone calls,
\* every entry of the phone list holds a value PhoneValidator accepts, and an
\* edit_phone whose new number is invalid fails with a validation error and
\* leaves the matched entry's value in place.
C2_PhonesAlwaysValid ==
    /\ \A i \in DOMAIN phones : PhoneValidate(GetValue(phones[i])) = "ok"
    /\ ( /\ call.op = "edit_phone"
         /\ PhoneValidate(call.b) # "ok"
         /\ \E i \in DOMAIN pre : StrOf(GetValue(pre[i])) = StrOf(call.a) )
       => (out.r = PhoneValidate(call.b) /\ phones = pre)

\* C3: remove_birthday completes without an error in any state and leaves
\* the birthday absent, so that a following days_to_birthday returns None.
C3_RemoveBirthdayClears ==
    [][ /\ call'.op = "remove_birthday" =>
            (out' = Ok /\ GetValue(birthday') = None)
        /\ (call.op = "remove_birthday" /\ call'.op = "days_to_birthday") =>
            out'.r = "None" ]_vars

HasTag(ns, tag) == \E i \in DOMAIN ns : ns[i].tag = tag

\* C4: looked up by the raw tag that add_note was given, edit_note makes the
\* note under that tag equal to new_note, remove_note deletes the mapping and
\* reports success, and remove_note of a tag with no mapping reports "does
\* not exist" and leaves the map unchanged.
C4_NoteLookupByRawTag ==
    /\ (call.op = "edit_note" /\ call.a.t = "str" /\ HasTag(pre, call.a)) =>
         \E i \in DOMAIN notes :
            notes[i].tag = call.a /\ GetValue(notes[i].note) = call.b
    /\ (call.op = "remove_note" /\ call.a.t = "str" /\ HasTag(pre, call.a)) =>
         (out.r = MsgRemoved /\ ~HasTag(notes, call.a))
    /\ (call.op = "remove_note" /\ call.a.t = "str" /\ ~HasTag(pre, call.a)) =>
         (out.r = MsgNoNote /\ notes = pre)

\* C5: add_note inserts or overwrites: the map holds at most one entry per
\* distinct tag value, and the note under a tag is the one of the most
\* recent add_note for that tag.
C5_OneEntryPerTag ==
    /\ \A i, j \in DOMAIN notes : notes[i].tag = notes[j].tag => i = j
    /\ call.op = "add_note" =>
         \A i \in DOMAIN notes :
            notes[i].tag = call.a => GetValue(notes[i].note) = call.b

Hits(list, value) == {i \in DOMAIN list : StrOf(GetValue(list[i])) = StrOf(value)}

\* C6: edit_phone(old, new) with a valid new number: with no entry that
\* stringifies equal to old the list is unchanged and "not found" is
\* reported without raising; otherwise exactly the first matching entry is
\* replaced by new, the length is unchanged and every other entry, later
\* duplicates of old included, keeps its value and position.
C6_EditPhoneFirstMatchOnly ==
    (call.op = "edit_phone" /\ PhoneValidate(call.b) = "ok") =>
        IF Hits(pre, call.a) = {}
        THEN phones = pre /\ out.r = MsgNotFound
        ELSE LET first == CHOOSE i \in Hits(pre, call.a) :
                              \A j \in Hits(pre, call.a) : i <= j
             IN  /\ out = Ok
                 /\ Len(phones) = Len(pre)
                 /\ GetValue(phones[first]) = call.b
                 /\ \A j \in DOMAIN pre : j # first => phones[j] = pre[j]

\* an edit that replaced the first of two entries equal to old, the later
\* duplicate still in place
C6_Witness ==
    /\ call.op = "edit_phone"
    /\ PhoneValidate(call.b) = "ok"
    /\ StrOf(call.a) # StrOf(call.b)
    /\ \E i, j \in DOMAIN pre :
         /\ i < j
         /\ {i, j} \subseteq Hits(pre, call.a)
         /\ GetValue(phones[i]) = call.b
         /\ j \in Hits(phones, call.a)

Kept(list, value) == DOMAIN list \ Hits(list, value)

\* C7: remove_phone(raw) removes every entry that stringifies equal to raw
\* and keeps the others in their original relative order, without an error;
\* with no match the list is unchanged. After it no entry equals raw,
\* however many times the number had been added.
C7_RemovePhoneRemovesAll ==
    call.op = "remove_phone" =>
        /\ out = Ok
        /\ Hits(phones, call.a) = {}
        /\ Len(phones) = Cardinality(Kept(pre, call.a))
        /\ \A k \in DOMAIN phones :
             \E i \in Kept(pre, call.a) :
                /\ Cardinality({j \in Kept(pre, call.a) : j <= i}) = k
                /\ phones[k] = pre[i]
        /\ Hits(pre, call.a) = {} => phones = pre

\* a removal of a number held twice, around an entry that stays
C7_Witness ==
    /\ call.op = "remove_phone"
    /\ \E i, j, k \in DOMAIN pre :
         /\ i < j /\ j < k
         /\ {i, k} \subseteq Hits(pre, call.a)
         /\ j \notin Hits(pre, call.a)
    /\ Len(phones) = Len(pre) - Cardinality(Hits(pre, call.a))
    /\ phones # <<>>

\* C8: days_to_birthday returns 0 whenever the stored birthday's day and
\* month equal today's, at any time of day.
C8_BirthdayTodayIsZero ==
    ( /\ call.op = "days_to_birthday"
      /\ DateValidate(GetValue(birthday)) = "ok"
      /\ ParseDate(GetValue(birthday).v).d = today.d
      /\ ParseDate(GetValue(birthday).v).m = today.m )
    => out = [r |-> "days", n |-> 0]

\* C9: for every birthday DateValidator accepted and every current date,
\* days_to_birthday yields a non-negative day count and never fails.
C9_DaysDefinedNonNegative ==
    (call.op = "days_to_birthday" /\ DateValidate(GetValue(birthday)) = "ok")
    => (out.r = "days" /\ out.n >= 0)

\* C10: PhoneValidator.validate accepts a string iff it consists only of
\* decimal digits and has length exactly 9; it rejects with the non-digit
\* reason whenever the string contains a non-digit, and with the
\* wrong-length reason only when the string is all digits of another length.
C10_PhoneValidatorAccepts ==
    (call.op = "validate" /\ raw.t = "str") =>
        /\ out = Ok <=> (IsDecimal(raw.v) /\ Len(raw.v) = PhoneLen)
        /\ ~IsDecimal(raw.v) => out.r = ErrDigits
        /\ out.r = ErrLength => (IsDecimal(raw.v) /\ Len(raw.v) # PhoneLen)

=============================================================================
